---------------------------- MODULE Spec2Model ----------------------------
(***************************************************************************)
(* A model of utils/JSONLoader.py: a loader that reads one JSON file,      *)
(* iterates over the parsed top-level value and turns every item into a    *)
(* Document (page_content, metadata).                                      *)
(*                                                                         *)
(* Text is a sequence of one-character strings, so that formatting and     *)
(* joining are computed character by character.  A JSON value is a record  *)
(* [t, s, n, items, fields] with the same fields whatever its type t.      *)
(***************************************************************************)
EXTENDS Integers, Sequences, FiniteSets, TLC

VARIABLES file, loader, coerce, last, handles

vars == <<file, loader, coerce, last, handles>>

(* ------------------------------ bounds --------------------------------- *)

\* Longest top-level array written to the file.
MaxRecords == 2

\* Most fields of a record handed to get_content.
MaxFields == 2

(* --------------------------- JSON values ------------------------------- *)

J(t, s, n, items, fields) == [t |-> t, s |-> s, n |-> n, items |-> items, fields |-> fields]

Str(s) == J("str", s, 0, <<>>, <<>>)

Num(n) == J("num", <<>>, n, <<>>, <<>>)

Bool(b) == J("bool", <<>>, IF b THEN 1 ELSE 0, <<>>, <<>>)

Null == J("null", <<>>, 0, <<>>, <<>>)

Arr(items) == J("arr", <<>>, 0, items, <<>>)

\* A mapping keeps its fields in insertion order; keys are distinct.
Obj(fields) == J("obj", <<>>, 0, <<>>, fields)

Field(k, v) == [k |-> k, v |-> v]

EmptyStr == Str(<<>>)

(* ------------------ Python's str() and repr() of a value --------------- *)

DigitChar(d) == <<"0", "1", "2", "3", "4", "5", "6", "7", "8", "9">>[d + 1]

RECURSIVE NatStr(_)
NatStr(n) == IF n < 10 THEN <<DigitChar(n)>> ELSE NatStr(n \div 10) \o <<DigitChar(n % 10)>>

IntStr(n) == IF n < 0 THEN <<"-">> \o NatStr(0 - n) ELSE NatStr(n)

\* "sep".join(parts)
RECURSIVE Join(_, _)
Join(parts, sep) ==
    IF Len(parts) = 0 THEN <<>>
    ELSE IF Len(parts) = 1 THEN parts[1]
    ELSE parts[1] \o sep \o Join(Tail(parts), sep)

\* repr() of a str escapes the newline; the model's alphabet has no quote
\* and no backslash.
RECURSIVE Escape(_)
Escape(s) ==
    IF Len(s) = 0 THEN <<>>
    ELSE (IF s[1] = "\n" THEN <<"\\", "n">> ELSE <<s[1]>>) \o Escape(Tail(s))

RECURSIVE PyRepr(_)
PyRepr(v) ==
    CASE v.t = "str" -> <<"'">> \o Escape(v.s) \o <<"'">>
      [] v.t = "num" -> IntStr(v.n)
      [] v.t = "bool" -> IF v.n = 1 THEN <<"T", "r", "u", "e">> ELSE <<"F", "a", "l", "s", "e">>
      [] v.t = "null" -> <<"N", "o", "n", "e">>
      [] v.t = "arr" ->
            <<"[">> \o Join([i \in 1..Len(v.items) |-> PyRepr(v.items[i])], <<",", " ">>) \o <<"]">>
      [] v.t = "obj" ->
            <<"{">>
            \o Join([i \in 1..Len(v.fields) |->
                       <<"'">> \o Escape(v.fields[i].k) \o <<"'", ":", " ">>
                       \o PyRepr(v.fields[i].v)], <<",", " ">>)
            \o <<"}">>

\* f"{value}": str(value); a str is rendered as itself.
PyStr(v) == IF v.t = "str" THEN v.s ELSE PyRepr(v)

(* ------------------------------ results -------------------------------- *)

Ok(ret) == [ok |-> TRUE, err |-> "", ret |-> ret]

Raise(err) == [ok |-> FALSE, err |-> err, ret |-> Null]

(* ---------------------------- get_content ------------------------------ *)

\* `if self._content_key:` a key that is None or "" is falsy.
KeyIsTruthy(self) == self.key_set /\ self.content_key # <<>>

\* item.get(key, "") on a mapping.
DictGet(item, key) ==
    IF \E i \in 1..Len(item.fields) : item.fields[i].k = key
    THEN item.fields[CHOOSE i \in 1..Len(item.fields) : item.fields[i].k = key].v
    ELSE EmptyStr

\* Variant: no space after the colon.
FormatLineTight(f) == f.k \o <<":">> \o PyStr(f.v)

\* f"{key}: {value}"
FormatLine(f) == f.k \o <<":", " ">> \o PyStr(f.v)

\* A value that is no mapping has neither .get nor .items.
get_content(self, item) ==
    IF item.t # "obj" THEN Raise("AttributeError")
    ELSE IF KeyIsTruthy(self) THEN Ok(DictGet(item, self.content_key))
    ELSE Ok(Str(Join([i \in 1..Len(item.fields) |-> FormatLine(item.fields[i])], <<"\n">>)))

(* ------------------- the caller's metadata functions ------------------- *)

KeySource == <<"s", "o", "u", "r", "c", "e">>

KeyA == <<"a">>

KeyB == <<"b">>

KeyC == <<"c">>

HasKey(item, key) == \E i \in 1..Len(item.fields) : item.fields[i].k = key

\* item[key] on a mapping that has the key.
DictItem(item, key) == item.fields[CHOOSE i \in 1..Len(item.fields) : item.fields[i].k = key].v

\* The functions a caller passes as metadata_func:
\*   "echo"     lambda item: {"source": item}
\*   "pick_a"   lambda item: {"a": item["a"]}
\*   "decode_a" lambda item: json.loads(item["a"])
\* No text of the model's alphabet is a JSON document, so json.loads of a
\* str raises JSONDecodeError; of a value that is no str, TypeError.
MetaApply(mf, item) ==
    CASE mf = "echo" -> Ok(Obj(<<Field(KeySource, item)>>))
      [] mf = "pick_a" ->
            IF item.t # "obj" THEN Raise("TypeError")
            ELSE IF HasKey(item, KeyA) THEN Ok(Obj(<<Field(KeyA, DictItem(item, KeyA))>>))
            ELSE Raise("KeyError")
      [] mf = "decode_a" ->
            IF item.t # "obj" THEN Raise("TypeError")
            ELSE IF ~HasKey(item, KeyA) THEN Raise("KeyError")
            ELSE IF DictItem(item, KeyA).t = "str" THEN Raise("JSONDecodeError")
            ELSE Raise("TypeError")

(* ------------------------------ Document ------------------------------- *)

\* langchain_core's Document declares page_content: str and validates it on
\* construction.  A str is kept; None, a list and a mapping are rejected by
\* every release; a number or a boolean is turned into its str() by the
\* releases built on pydantic 1 (coerce) and rejected by those on pydantic 2.
Document(content, metadata) ==
    IF content.t = "str"
    THEN Ok([page_content |-> content, metadata |-> metadata])
    ELSE IF content.t \in {"num", "bool"} /\ coerce
    THEN Ok([page_content |-> Str(PyStr(content)), metadata |-> metadata])
    ELSE Raise("ValidationError")

(* -------------------------- create_documents --------------------------- *)

\* `for item in data`: a list yields its elements, a mapping its keys, a str
\* its characters; a number, a boolean and None are not iterable.
Iterate(data) ==
    CASE data.t = "arr" -> Ok(data.items)
      [] data.t = "obj" -> Ok([i \in 1..Len(data.fields) |-> Str(data.fields[i].k)])
      [] data.t = "str" -> Ok([i \in 1..Len(data.s) |-> Str(<<data.s[i]>>)])
      [] OTHER -> [ok |-> FALSE, err |-> "TypeError", ret |-> <<>>]

Building(docs, calls) == [ok |-> TRUE, err |-> "", docs |-> docs, calls |-> calls]

Failed(err, calls) == [ok |-> FALSE, err |-> err, docs |-> <<>>, calls |-> calls]

\* Variant: metadata_func applied to the first item for every document.
MetadataOfFirst(self, items, i) ==
    IF self.metadata_func # "unset"
    THEN MetaApply(self.metadata_func, items[1]) @@ [called |-> <<items[1]>>]
    ELSE Ok(Obj(<<>>)) @@ [called |-> <<>>]

\* The metadata of items[i]: [ok, err, ret, called], called being the items
\* metadata_func was applied to.
MetadataOf(self, items, i) ==
    IF self.metadata_func # "unset"
    THEN MetaApply(self.metadata_func, items[i]) @@ [called |-> <<items[i]>>]
    ELSE Ok(Obj(<<>>)) @@ [called |-> <<>>]

\* The loop body for items[i..]; acc holds the documents appended and the
\* items metadata_func was called on so far.
RECURSIVE ForEach(_, _, _, _)
ForEach(self, items, i, acc) ==
    IF i > Len(items) THEN acc
    ELSE LET c == get_content(self, items[i]) IN
         IF ~c.ok THEN Failed(c.err, acc.calls)
         ELSE LET m == MetadataOf(self, items, i)
                  calls == acc.calls \o m.called
              IN IF ~m.ok THEN Failed(m.err, calls)
                 ELSE LET d == Document(c.ret, m.ret) IN
                      IF ~d.ok THEN Failed(d.err, calls)
                      ELSE ForEach(self, items, i + 1, Building(Append(acc.docs, d.ret), calls))

create_documents(self, data) ==
    LET it == Iterate(data) IN
    IF ~it.ok THEN Failed(it.err, <<>>)
    ELSE ForEach(self, it.ret, 1, Building(<<>>, <<>>))

(* -------------------------------- load --------------------------------- *)

Message == "Error: Invalid JSON format"

\* json.load(json_file): reading bytes that are no UTF-8 text raises
\* UnicodeDecodeError; text that is no JSON document raises JSONDecodeError.
json_load(f) ==
    CASE f.kind = "unreadable" -> Raise("UnicodeDecodeError")
      [] f.kind = "malformed" -> Raise("JSONDecodeError")
      [] f.kind = "json" -> Ok(f.data)

\* The body of the try statement: [ok, err, docs, calls].
TryBody(self, f) ==
    LET parsed == json_load(f) IN
    IF ~parsed.ok THEN Failed(parsed.err, <<>>)
    ELSE create_documents(self, parsed.ret)

\* `except json.JSONDecodeError`
Caught(body) == ~body.ok /\ body.err = "JSONDecodeError"

\* Variant: a close() written after the try statement, skipped by an
\* exception that propagates.
WithExitOnReturnOnly(body) == IF body.ok \/ Caught(body) THEN 1 ELSE 0

\* The with statement closes the handle on every way out of its block: the
\* number of handles closed when the block is left.
WithExit(body) == 1

\* Variant: open() inside the try statement and a bare except.
loadCatchingAll(self, f) ==
    LET body == IF f.kind = "missing" THEN Failed("FileNotFoundError", <<>>) ELSE TryBody(self, f)
    IN [outcome |-> "return", err |-> "",
        docs |-> IF body.ok THEN body.docs ELSE <<>>,
        printed |-> IF body.ok THEN <<>> ELSE <<Message>>,
        opened |-> IF f.kind = "missing" THEN 0 ELSE 1,
        closed |-> IF f.kind = "missing" THEN 0 ELSE 1,
        calls |-> body.calls]

\* Variant: no except clause.
loadNotCatching(self, f) ==
    IF f.kind = "missing"
    THEN [outcome |-> "raise", err |-> "FileNotFoundError", docs |-> <<>>,
          printed |-> <<>>, opened |-> 0, closed |-> 0, calls |-> <<>>]
    ELSE LET body == TryBody(self, f) IN
         [outcome |-> IF body.ok THEN "return" ELSE "raise",
          err |-> IF body.ok THEN "" ELSE body.err,
          docs |-> IF body.ok THEN body.docs ELSE <<>>,
          printed |-> <<>>, opened |-> 1, closed |-> 1, calls |-> body.calls]

\* open() of a missing file raises before the try statement is entered and
\* opens nothing.  docs is assigned only when the body ends normally.
load(self, f) ==
    IF f.kind = "missing"
    THEN [outcome |-> "raise", err |-> "FileNotFoundError", docs |-> <<>>,
          printed |-> <<>>, opened |-> 0, closed |-> 0, calls |-> <<>>]
    ELSE LET body == TryBody(self, f) IN
         [outcome |-> IF body.ok \/ Caught(body) THEN "return" ELSE "raise",
          err |-> IF body.ok \/ Caught(body) THEN "" ELSE body.err,
          docs |-> IF body.ok THEN body.docs ELSE <<>>,
          printed |-> IF Caught(body) THEN <<Message>> ELSE <<>>,
          opened |-> 1,
          closed |-> WithExit(body),
          calls |-> body.calls]

(* ----------------------------- constructor ----------------------------- *)

NoLoader == [constructed |-> FALSE, key_set |-> FALSE, content_key |-> <<>>, metadata_func |-> "unset"]

\* __init__ stores its arguments and reads nothing.
JSONLoader(f, key_set, content_key, metadata_func) ==
    Ok([constructed |-> TRUE, key_set |-> key_set, content_key |-> content_key,
        metadata_func |-> metadata_func])

(* ------------------------- the inputs of the model --------------------- *)

\* The records and the values that are no record which a file's array holds.
Elements ==
    { Obj(<<>>),
      Obj(<<Field(KeyA, Str(<<"x">>))>>),
      Obj(<<Field(KeyA, Num(0 - 12)), Field(KeyB, Str(<<"y", "\n">>))>>),
      Obj(<<Field(KeyA, Null)>>),
      Num(7),
      Str(<<"a">>) }

Arrays == UNION {[1..n -> Elements] : n \in 0..MaxRecords}

\* Top-level values that are no array.
NonArrays ==
    { Obj(<<>>), Obj(<<Field(KeyA, Num(1))>>), Str(<<>>), Str(<<"a", "b">>),
      Num(5), Bool(TRUE), Null }

NoFile == [kind |-> "missing", data |-> Null]

Files ==
    { NoFile, [kind |-> "unreadable", data |-> Null], [kind |-> "malformed", data |-> Null] }
    \cup {[kind |-> "json", data |-> d] : d \in {Arr(a) : a \in Arrays} \cup NonArrays}

\* content_key: None, "", "a", "b".
LoadKeys == {<<FALSE, <<>>>>, <<TRUE, <<>>>>, <<TRUE, KeyA>>, <<TRUE, KeyB>>}

MetaFuncs == {"unset", "echo", "pick_a", "decode_a"}

\* The values of a record's fields handed to get_content.
FieldValues ==
    { EmptyStr, Str(<<"a", "\n", "b">>), Num(0 - 12), Num(305), Bool(TRUE), Null,
      Arr(<<Num(1), Str(<<"b", "\n">>)>>), Obj(<<Field(KeyA, Bool(FALSE))>>) }

Fields == {Field(k, v) : k \in {KeyA, KeyB, KeyC}, v \in FieldValues}

Records ==
    UNION {{Obj(s) : s \in {q \in [1..n -> Fields] :
                              \A i, j \in 1..n : i < j => q[i].k # q[j].k}} : n \in 0..MaxFields}

ContentItems == Records \cup {Num(7), Str(<<"a">>), Null, Arr(<<>>)}

\* content_key: None, "", "a", "b", "z".
ContentKeys == LoadKeys \cup {<<TRUE, <<"z">>>>}

(* ------------------------------- state --------------------------------- *)

NoCall ==
    [op |-> "none", arg |-> Null, outcome |-> "none", err |-> "", ret |-> Null,
     docs |-> <<>>, calls |-> <<>>, printed |-> <<>>]

\* file: what is at the loader's path; loader: the loader object;
\* coerce: whether the installed Document coerces numbers to str;
\* last: the last call and how it ended; handles: file handles now open.
Init ==
    /\ file \in Files
    /\ loader = NoLoader
    /\ coerce \in BOOLEAN
    /\ last = NoCall
    /\ handles = 0

Construct(key, mf) ==
    /\ ~loader.constructed
    /\ LET r == JSONLoader(file, key[1], key[2], mf) IN
       /\ loader' = r.ret
       /\ last' = [NoCall EXCEPT !.op = "init",
                                 !.outcome = IF r.ok THEN "return" ELSE "raise",
                                 !.err = r.err]
    /\ UNCHANGED <<file, coerce, handles>>

\* Between two loads another process rewrites, removes or creates the file.
WriteFile(f) ==
    /\ last.op = "load"
    /\ f # file
    /\ file' = f
    /\ last' = NoCall
    /\ UNCHANGED <<loader, coerce, handles>>

Load ==
    /\ loader.constructed
    /\ LET r == load(loader, file) IN
       /\ last' = [NoCall EXCEPT !.op = "load", !.outcome = r.outcome, !.err = r.err,
                                 !.docs = r.docs, !.calls = r.calls, !.printed = r.printed]
       /\ handles' = handles + r.opened - r.closed
    /\ UNCHANGED <<file, loader, coerce>>

Next ==
    \/ \E key \in LoadKeys, mf \in MetaFuncs : Construct(key, mf)
    \/ \E f \in Files : WriteFile(f)
    \/ Load

Spec == Init /\ [][Next]_vars

\* get_content called on its own: a loader built with any content_key and
\* the item of the call about to be made (last.arg).
InitContent ==
    /\ file = NoFile
    /\ \E key \in ContentKeys : loader = JSONLoader(NoFile, key[1], key[2], "unset").ret
    /\ coerce = FALSE
    /\ \E item \in ContentItems : last = [NoCall EXCEPT !.arg = item]
    /\ handles = 0

GetContent ==
    /\ loader.constructed
    /\ LET r == get_content(loader, last.arg) IN
       last' = [NoCall EXCEPT !.op = "get_content", !.arg = last.arg,
                              !.outcome = IF r.ok THEN "return" ELSE "raise",
                              !.err = r.err, !.ret = r.ret]
    /\ UNCHANGED <<file, loader, coerce, handles>>

NextContent == GetContent

SpecContent == InitContent /\ [][NextContent]_vars

(* ======================= the claims, one by one ======================== *)

\* The file holds an array whose elements are all records.
WellFormed(f) ==
    /\ f.kind = "json"
    /\ f.data.t = "arr"
    /\ \A i \in 1..Len(f.data.items) : f.data.items[i].t = "obj"

\* metadata_func is unset or a function that returns for every record.
TotalMetadataFunc == loader.metadata_func \in {"unset", "echo"}

\* C1: for a file holding a well-formed array of N records, load() returns
\* exactly N documents, the i-th built from the i-th record with
\* content = get_content(record i).  Stated for the loaders whose
\* metadata_func is unset or returns for every record.
C1_OneDocumentPerRecord ==
    (last.op = "load" /\ WellFormed(file) /\ TotalMetadataFunc) =>
        /\ last.outcome = "return"
        /\ Len(last.docs) = Len(file.data.items)
        /\ \A i \in 1..Len(last.docs) :
              last.docs[i].page_content = get_content(loader, file.data.items[i]).ret

\* C2: with content_key set to any string, get_content of a record returns
\* the record's value at that key when it has the key, the empty string when
\* it has not, and never raises.
C2_ContentIsValueAtKey ==
    (last.op = "get_content" /\ loader.key_set /\ last.arg.t = "obj") =>
        /\ last.outcome = "return"
        /\ LET fs == last.arg.fields
               at == {i \in 1..Len(fs) : fs[i].k = loader.content_key}
           IN IF at = {} THEN last.ret = Str(<<>>)
              ELSE \E i \in at : last.ret = fs[i].v

\* The line of one field: the key, a colon, a space, the value's str().
LineText(f) == f.k \o <<":", " ">> \o PyStr(f.v)

\* Where the i-th line starts in the joined text (0-based offset).
RECURSIVE LineStart(_, _)
LineStart(fs, i) ==
    IF i = 1 THEN 0 ELSE LineStart(fs, i - 1) + Len(LineText(fs[i - 1])) + 1

SampleRecord ==
    Obj(<<Field(KeyA, Num(0 - 12)), Field(KeyB, Arr(<<Num(1), Str(<<"b", "\n">>)>>))>>)

\* "a: -12\nb: [1, 'b\\n']"
SampleText ==
    << "a", ":", " ", "-", "1", "2", "\n",
       "b", ":", " ", "[", "1", ",", " ", "'", "b", "\\", "n", "'", "]" >>

\* C3: with no content_key, get_content of a record returns the text made of
\* one line "<key>: <value>" per field, in field order, the lines separated
\* by one newline each, with no newline before the first or after the last
\* line; a record without fields gives the empty text.
C3_ContentIsJoinedLines ==
    (last.op = "get_content" /\ ~loader.key_set /\ last.arg.t = "obj") =>
        /\ last.outcome = "return"
        /\ last.ret.t = "str"
        /\ LET fs == last.arg.fields
               s == last.ret.s
               n == Len(fs)
           IN /\ Len(s) = IF n = 0 THEN 0 ELSE LineStart(fs, n) + Len(LineText(fs[n]))
              /\ \A i \in 1..n :
                    SubSeq(s, LineStart(fs, i) + 1, LineStart(fs, i) + Len(LineText(fs[i])))
                        = LineText(fs[i])
              /\ \A i \in 2..n : s[LineStart(fs, i)] = "\n"
        /\ (last.arg = SampleRecord => last.ret.s = SampleText)

C3_Witness ==
    /\ last.op = "get_content"
    /\ ~loader.key_set
    /\ last.arg = SampleRecord
    /\ last.outcome = "return"

\* C4: every document produced has the empty mapping as metadata when
\* metadata_func is unset, and metadata_func(record) of the record it was
\* built from when it is set; metadata_func is then called once per record,
\* in order, and on nothing else.
C4_MetadataOfItsRecord ==
    (last.op = "load" /\ Len(last.docs) > 0) =>
        /\ file.kind = "json"
        /\ Len(last.docs) <= Len(file.data.items)
        /\ IF loader.metadata_func = "unset"
           THEN /\ last.calls = <<>>
                /\ \A i \in 1..Len(last.docs) : last.docs[i].metadata = Obj(<<>>)
           ELSE /\ Len(last.calls) = Len(last.docs)
                /\ \A i \in 1..Len(last.docs) :
                      /\ last.calls[i] = file.data.items[i]
                      /\ last.docs[i].metadata
                            = MetaApply(loader.metadata_func, file.data.items[i]).ret

C4_Witness ==
    /\ last.op = "load"
    /\ loader.metadata_func = "echo"
    /\ Len(last.docs) = 2
    /\ last.docs[1].metadata # last.docs[2].metadata

C6_MissingFileRaises ==
    /\ last.op = "init" => (last.outcome = "return" /\ loader.constructed)
    /\ (last.op = "load" /\ file.kind = "missing") =>
          /\ last.outcome = "raise"
          /\ last.err = "FileNotFoundError"
          /\ last.docs = <<>>
          /\ last.printed = <<>>

C6_Witness ==
    /\ loader.constructed
    /\ last.op = "load"
    /\ file.kind = "missing"
    /\ last.outcome = "raise"

\* C7: whatever way the calls of load() ended, no handle that load() opened
\* is open once the call is over.
C7_NoHandleLeftOpen == handles = 0

\* a load() that ended with an error raised inside the with block
C7_Witness ==
    /\ last.op = "load"
    /\ last.outcome = "raise"
    /\ last.err \in {"AttributeError", "TypeError", "KeyError", "ValidationError", "UnicodeDecodeError"}
    /\ handles = 0

\* C8: for every record and every content_key, get_content returns a str.
C8_ContentIsStr ==
    (last.op = "get_content" /\ last.arg.t = "obj") =>
        (last.outcome = "return" /\ last.ret.t = "str")

\* C9: for a file holding a JSON value that is no array, or an array with an
\* element that is no record, load() raises and returns no sequence.
C9_WrongShapeRaises ==
    (last.op = "load" /\ file.kind = "json" /\ ~WellFormed(file)) =>
        last.outcome = "raise"

\* C10: when the file parses as JSON, an error raised while the documents
\* are built, whatever its type, propagates: load() raises it, prints no
\* message and does not return the empty sequence in its place.
C10_BuildErrorPropagates ==
    (last.op = "load" /\ file.kind = "json" /\ ~create_documents(loader, file.data).ok) =>
        /\ last.outcome = "raise"
        /\ last.err = create_documents(loader, file.data).err
        /\ last.printed = <<>>

=============================================================================
